---- MODULE Spec2Model ----
(***************************************************************************)
(* Model of tools/slf.py, class SLF: the structured (pickle) path of       *)
(* get_interpolation_functions.                                            *)
(*                                                                         *)
(* The raw table df is the nested dict                                     *)
(*   directionality -> EDP key -> [direction ->] story id -> {edp, loss}   *)
(* with one EDP key per directionality class.  It is held as a function    *)
(* from a path index (1: Non-directional, 2: Directional/dir1,             *)
(* 3: Directional/dir2) to the sequence of that path's entries in dict     *)
(* (insertion) order.  edp and loss are numpy arrays of integers.          *)
(*                                                                         *)
(* Numbers produced by the true division of line 115 and the scaling of    *)
(* lines 135/147 are exact rationals extended with the IEEE values inf     *)
(* and nan that numpy yields for x/0 and 0*inf (warnings are silenced at   *)
(* line 10): [k, n, d] with k in {"num","inf","nan"}.                      *)
(***************************************************************************)
EXTENDS Integers, Sequences, FiniteSets, TLC

VARIABLES
    self,                     \* the SLF object: repl_cost, flag3d, normalize
    df,                       \* the raw table object (shared with the caller)
    arg,                      \* df as it was when the latest call was entered
    total_comp_cost,          \* local of get_interpolation_functions
    aggregated,               \* TRUE once line 102/112 has added a numpy scalar
    factor,                   \* local of get_interpolation_functions
    interpolation_functions,  \* the dict being built / returned
    outcome,                  \* "none" | "returned" | "ZeroDivisionError"
    ncalls,                   \* completed calls on this df
    prev,                     \* what the previous completed call produced
    pc,                       \* position inside a running call (SpecSteps)
    pos,                      \* index of the next leaf of the running loop
    visited,                  \* leaves line 102/112 has read in this call
    built                     \* leaves stored in this call, with the factor used

vars == <<self, df, arg, total_comp_cost, aggregated, factor,
          interpolation_functions, outcome, ncalls, prev, pc, pos, visited, built>>

----------------------------------------------------------------------------
(* Bounds of the model *)

\* samples (edp, loss pairs) in the whole raw table
MaxSamples == 2
\* successive calls of get_interpolation_functions on one table object
MaxCalls == 2

LossVals == {-1, 0, 2}
EdpStarts == {0, 1}
ReplCosts == {1, 2}

----------------------------------------------------------------------------
(* Extended numbers *)

Abs(a) == IF a < 0 THEN -a ELSE a
Sign(a) == IF a < 0 THEN -1 ELSE IF a = 0 THEN 0 ELSE 1

RECURSIVE Gcd(_, _)
Gcd(a, b) == IF b = 0 THEN a ELSE Gcd(b, a % b)

NaN == [k |-> "nan", n |-> 0, d |-> 0]
Inf(s) == [k |-> "inf", n |-> s, d |-> 0]
Unset == [k |-> "unset", n |-> 0, d |-> 0]

\* n/d, d # 0, in lowest terms with a positive denominator
Rat(n, d) ==
    LET g == Gcd(Abs(n), Abs(d))
    IN  [k |-> "num", n |-> (Sign(d) * n) \div g, d |-> Abs(d) \div g]

One == Rat(1, 1)
Zero == Rat(0, 1)

\* numpy true division a / b of two integers-as-floats
TrueDivide(a, b) ==
    IF b # 0 THEN Rat(a, b)
    ELSE IF a = 0 THEN NaN ELSE Inf(Sign(a))

\* numpy product of an array element v with the scalar f
Times(v, f) ==
    CASE f.k = "num" -> Rat(v * f.n, f.d)
      [] f.k = "inf" -> IF v = 0 THEN NaN ELSE Inf(Sign(v) * f.n)
      [] OTHER -> NaN

----------------------------------------------------------------------------
(* The raw table *)

Paths ==
    << [d |-> "Non-directional", key |-> "PFA_NS", x |-> "none"],
       [d |-> "Directional", key |-> "IDR", x |-> "dir1"],
       [d |-> "Directional", key |-> "IDR", x |-> "dir2"] >>

PathIds == DOMAIN Paths

\* story / floor identifiers, as sequences of characters
StoryIds == { <<"s", "1">>, <<"f", "1">>, <<"s", "1", "2">> }

DigitVal(c) ==
    CASE c = "0" -> 0 [] c = "1" -> 1 [] c = "2" -> 2 [] c = "3" -> 3
      [] c = "4" -> 4 [] c = "5" -> 5 [] c = "6" -> 6 [] c = "7" -> 7
      [] c = "8" -> 8 [] c = "9" -> 9

\* a 1-based key: int(i[-1]) + 1
StoryKeyOneBased(i) == DigitVal(i[Len(i)]) + 1

\* int(i[-1])
StoryKey(i) == DigitVal(i[Len(i)])

RECURSIVE SeqMax(_)
SeqMax(s) ==
    IF Len(s) = 1 THEN s[1]
    ELSE LET m == SeqMax(Tail(s)) IN IF s[1] > m THEN s[1] ELSE m

\* np.insert(a, 0, 0)
Insert0(a) == <<0>> \o a

\* a[a < 0] = 0.0
Truncate(a) == [j \in DOMAIN a |-> IF a[j] < 0 THEN 0 ELSE a[j]]

\* the tables of at most b samples in all, on the EDP grid starting at e0
LeafData(m, e0) ==
    { [edp |-> [j \in 1..m |-> e0 + j - 1], loss |-> l] : l \in [1..m -> LossVals] }

RECURSIVE EntrySeqs(_, _, _)
EntrySeqs(b, e0, used) ==
    {<<>>} \cup
    UNION { UNION { { <<[id |-> i, edp |-> leaf.edp, loss |-> leaf.loss]>> \o rest :
                        rest \in EntrySeqs(b - m, e0, used \cup {i}) } :
                    <<i, leaf>> \in (StoryIds \ used) \X LeafData(m, e0) } :
            m \in 1..b }

RECURSIVE NSamples(_)
NSamples(es) == IF es = <<>> THEN 0 ELSE Len(es[1].loss) + NSamples(Tail(es))

Tables(b, e0) ==
    UNION { UNION { { <<s1, s2, s3>> :
                        s3 \in EntrySeqs(b - NSamples(s1) - NSamples(s2), e0, {}) } :
                    s2 \in EntrySeqs(b - NSamples(s1), e0, {}) } :
            s1 \in EntrySeqs(b, e0, {}) }

----------------------------------------------------------------------------
(* get_interpolation_functions, structured path (self.flag = True) *)

\* both directions whatever flag3d is
directionsBoth(flag3d) == <<"dir1", "dir2">>

\* lines 105-109
directions(flag3d) == IF flag3d THEN <<"dir1", "dir2">> ELSE <<"dir1">>

PathOf(x) == CHOOSE p \in PathIds : Paths[p].x = x

LeafRefs(t, p) == [j \in 1..Len(t[p]) |-> <<p, j>>]

RECURSIVE DirRefs(_, _)
DirRefs(t, xs) ==
    IF xs = <<>> THEN <<>> ELSE LeafRefs(t, PathOf(xs[1])) \o DirRefs(t, Tail(xs))

\* the leaves the first loop (lines 98-112) reads, in the order it reads them
AggLeaves(t, flag3d) == LeafRefs(t, PathOf("none")) \o DirRefs(t, directions(flag3d))

\* the leaves the second loop (lines 120-147) stores, in order
BuildLeaves(t) == LeafRefs(t, 1) \o LeafRefs(t, 2) \o LeafRefs(t, 3)

\* total_comp_cost += max(...["loss"])
AddMax(total, t, ref) == total + SeqMax(t[ref[1]][ref[2]].loss)

RECURSIVE TotalCompCost(_, _, _)
TotalCompCost(total, t, refs) ==
    IF refs = <<>> THEN total
    ELSE TotalCompCost(AddMax(total, t, refs[1]), t, Tail(refs))

\* line 115 raises ZeroDivisionError when total_comp_cost is still the Python
\* int 0 of line 97; once a numpy scalar has been added numpy divides
Raises(normalize, anyAggregated) == normalize /\ ~anyAggregated

\* the division done whatever normalize is
FactorAlwaysDivides(normalize, repl_cost, total) == TrueDivide(repl_cost, total)

\* lines 114-117
Factor(normalize, repl_cost, total) ==
    IF normalize THEN TrueDivide(repl_cost, total) ELSE One

\* the loss array of a leaf as line 134/145 reads it: line 132 truncates the
\* Non-directional leaves in place, the directional branch does not
LossAtInsert(p, loss) ==
    IF Paths[p].d = "Non-directional" THEN Truncate(loss) ELSE loss

\* interp1d(edp_temp, slf_temp * factor): the sample pairs it is built over
Interp(edp_temp, slf_temp, f) ==
    [x |-> edp_temp, y |-> [j \in DOMAIN slf_temp |-> Times(slf_temp[j], f)]]

Put(out, k, v) == [q \in DOMAIN out \cup {k} |-> IF q = k THEN v ELSE out[q]]

\* one pass of the loop body, lines 129-135 / 144-147, on [df, out]
BuildOne(st, ref, f) ==
    LET p == ref[1]
        j == ref[2]
        e == st.df[p][j]
        edp_temp == Insert0(e.edp)
        loss == LossAtInsert(p, e.loss)
        slf_temp == Insert0(loss)
    IN  [df  |-> [st.df EXCEPT ![p][j].loss = loss],
         out |-> Put(st.out, <<p, StoryKey(e.id)>>, Interp(edp_temp, slf_temp, f))]

RECURSIVE BuildFrom(_, _, _)
BuildFrom(st, refs, f) ==
    IF refs = <<>> THEN st
    ELSE BuildFrom(BuildOne(st, refs[1], f), Tail(refs), f)

Empty == [q \in {} |-> 0]

NoResult == [total |-> 0, factor |-> Unset, out |-> Empty, outcome |-> "none"]

Result == [total |-> total_comp_cost, factor |-> factor,
           out |-> interpolation_functions, outcome |-> outcome]

----------------------------------------------------------------------------
(* Specification with one action per call *)

Init ==
    /\ self \in [repl_cost : ReplCosts, flag3d : BOOLEAN, normalize : BOOLEAN]
    /\ \E e0 \in EdpStarts : df \in Tables(MaxSamples, e0)
    /\ arg = df
    /\ total_comp_cost = 0
    /\ aggregated = FALSE
    /\ factor = Unset
    /\ interpolation_functions = Empty
    /\ outcome = "none"
    /\ ncalls = 0
    /\ prev = NoResult
    /\ pc = "idle"
    /\ pos = 0
    /\ visited = {}
    /\ built = {}

\* a call that runs to line 149
GetInterpolationFunctions ==
    LET refs == AggLeaves(df, self.flag3d)
        total == TotalCompCost(0, df, refs)
        f == Factor(self.normalize, self.repl_cost, total)
        st == BuildFrom([df |-> df, out |-> Empty], BuildLeaves(df), f)
    IN  /\ pc = "idle"
        /\ ncalls < MaxCalls
        /\ ~Raises(self.normalize, refs # <<>>)
        /\ arg' = df
        /\ prev' = Result
        /\ total_comp_cost' = total
        /\ aggregated' = (refs # <<>>)
        /\ factor' = f
        /\ df' = st.df
        /\ interpolation_functions' = st.out
        /\ outcome' = "returned"
        /\ ncalls' = ncalls + 1
        /\ UNCHANGED <<self, pc, pos, visited, built>>

\* a call that line 115 aborts
GetInterpolationFunctionsRaise ==
    LET refs == AggLeaves(df, self.flag3d)
    IN  /\ pc = "idle"
        /\ ncalls < MaxCalls
        /\ Raises(self.normalize, refs # <<>>)
        /\ arg' = df
        /\ prev' = Result
        /\ total_comp_cost' = TotalCompCost(0, df, refs)
        /\ aggregated' = FALSE
        /\ factor' = Unset
        /\ interpolation_functions' = Empty
        /\ outcome' = "ZeroDivisionError"
        /\ ncalls' = ncalls + 1
        /\ UNCHANGED <<self, df, pc, pos, visited, built>>

Next == GetInterpolationFunctions \/ GetInterpolationFunctionsRaise

Spec == Init /\ [][Next]_vars

----------------------------------------------------------------------------
(* Specification with one action per statement of a call: the position in  *)
(* the two loops is pc and pos                                             *)

\* the first loop left one leaf early
AggDoneEarly(i, refs) == i >= Len(refs)

\* the first loop has run off the end of its leaves
AggDone(i, refs) == i > Len(refs)

\* line 97 and line 78
Enter ==
    /\ pc = "idle"
    /\ ncalls < MaxCalls
    /\ pc' = "agg"
    /\ pos' = 1
    /\ arg' = df
    /\ prev' = Result
    /\ total_comp_cost' = 0
    /\ aggregated' = FALSE
    /\ factor' = Unset
    /\ interpolation_functions' = Empty
    /\ outcome' = "none"
    /\ visited' = {}
    /\ built' = {}
    /\ UNCHANGED <<self, df, ncalls>>

\* line 102 / line 112, once
AggLeaf ==
    LET refs == AggLeaves(df, self.flag3d)
    IN  /\ pc = "agg"
        /\ ~AggDone(pos, refs)
        /\ total_comp_cost' = AddMax(total_comp_cost, df, refs[pos])
        /\ aggregated' = TRUE
        /\ visited' = visited \cup {refs[pos]}
        /\ pos' = pos + 1
        /\ UNCHANGED <<self, df, arg, factor, interpolation_functions, outcome,
                       ncalls, prev, pc, built>>

\* lines 114-117
ComputeFactor ==
    /\ pc = "agg"
    /\ AggDone(pos, AggLeaves(df, self.flag3d))
    /\ ~Raises(self.normalize, aggregated)
    /\ factor' = Factor(self.normalize, self.repl_cost, total_comp_cost)
    /\ pc' = "build"
    /\ pos' = 1
    /\ UNCHANGED <<self, df, arg, total_comp_cost, aggregated,
                   interpolation_functions, outcome, ncalls, prev, visited, built>>

\* line 115 raising
RaiseZeroDivision ==
    /\ pc = "agg"
    /\ AggDone(pos, AggLeaves(df, self.flag3d))
    /\ Raises(self.normalize, aggregated)
    /\ outcome' = "ZeroDivisionError"
    /\ pc' = "idle"
    /\ pos' = 0
    /\ ncalls' = ncalls + 1
    /\ UNCHANGED <<self, df, arg, total_comp_cost, aggregated, factor,
                   interpolation_functions, prev, visited, built>>

\* lines 129-135 / 144-147, once
BuildLeaf ==
    LET refs == BuildLeaves(df)
        st == BuildOne([df |-> df, out |-> interpolation_functions], refs[pos], factor)
    IN  /\ pc = "build"
        /\ pos <= Len(refs)
        /\ df' = st.df
        /\ interpolation_functions' = st.out
        /\ built' = built \cup {[ref |-> refs[pos], f |-> factor]}
        /\ pos' = pos + 1
        /\ UNCHANGED <<self, arg, total_comp_cost, aggregated, factor, outcome,
                       ncalls, prev, pc, visited>>

\* line 149
Return ==
    /\ pc = "build"
    /\ pos > Len(BuildLeaves(df))
    /\ outcome' = "returned"
    /\ pc' = "idle"
    /\ pos' = 0
    /\ ncalls' = ncalls + 1
    /\ UNCHANGED <<self, df, arg, total_comp_cost, aggregated, factor,
                   interpolation_functions, prev, visited, built>>

NextSteps ==
    Enter \/ AggLeaf \/ ComputeFactor \/ RaiseZeroDivision \/ BuildLeaf \/ Return

SpecSteps == Init /\ [][NextSteps]_vars

\* the statement-level run of a call ends where the one-action call ends
StepsMatchCall ==
    (pc = "idle" /\ outcome = "returned") =>
        LET refs == AggLeaves(arg, self.flag3d)
            total == TotalCompCost(0, arg, refs)
            f == Factor(self.normalize, self.repl_cost, total)
            st == BuildFrom([df |-> arg, out |-> Empty], BuildLeaves(arg), f)
        IN  /\ total_comp_cost = total
            /\ factor = f
            /\ df = st.df
            /\ interpolation_functions = st.out

----------------------------------------------------------------------------
(* Properties *)

\* a call has ended (by return or by exception) and no call is running
Ended == pc = "idle" /\ ncalls > 0

Returned == Ended /\ outcome = "returned"

Digits == <<"0", "1", "2", "3", "4", "5", "6", "7", "8", "9">>

\* the integer written by the last character of a story / floor identifier
LastDigit(s) == (CHOOSE n \in DOMAIN Digits : Digits[n] = s[Len(s)]) - 1

MaxOf(a) == CHOOSE m \in {a[i] : i \in DOMAIN a} : \A i \in DOMAIN a : a[i] <= m

\* the leaves of table t that count towards the total
CostLeaves(t, flag3d) ==
    { <<p, j>> \in PathIds \X (1..MaxSamples) :
        /\ j <= Len(t[p])
        /\ (Paths[p].x = "dir2" => flag3d) }

RECURSIVE SumOfMaxima(_, _)
SumOfMaxima(t, S) ==
    IF S = {} THEN 0
    ELSE LET r == CHOOSE r \in S : TRUE
         IN  MaxOf(t[r[1]][r[2]].loss) + SumOfMaxima(t, S \ {r})

\* entry j of path p is not followed, at its path, by an identifier with the
\* same last character
LastOfItsKey(t, p, j) ==
    \A j2 \in (j + 1)..Len(t[p]) :
        t[p][j2].id[Len(t[p][j2].id)] # t[p][j].id[Len(t[p][j].id)]

\* the sample pairs of the interpolant of one entry: a leading (0, 0 * f), then
\* the entry's own samples scaled by f, the Non-directional ones floored at 0
OwnInterp(p, e, f) ==
    [x |-> [i \in 1..(Len(e.edp) + 1) |-> IF i = 1 THEN 0 ELSE e.edp[i - 1]],
     y |-> [i \in 1..(Len(e.loss) + 1) |->
              IF i = 1 THEN Times(0, f)
              ELSE IF p = 1 /\ e.loss[i - 1] < 0 THEN Times(0, f)
              ELSE Times(e.loss[i - 1], f)]]

OutKey(p, e) == <<p, LastDigit(e.id)>>

\* C1: after a call returns, in every leaf of every directionality class the
\* sample handed to the interpolant for a negative raw loss sample is 0 scaled
\* by factor, never the negative sample scaled.
C1_NegativeSamplesClamped ==
    Returned =>
        \A p \in PathIds : \A j \in 1..Len(arg[p]) :
            LET e == arg[p][j]
            IN  LastOfItsKey(arg, p, j) =>
                    \A i \in 1..Len(e.loss) :
                        e.loss[i] < 0 =>
                            interpolation_functions[OutKey(p, e)].y[i + 1] = Times(0, factor)

\* C2: when normalize is requested and the aggregated total is zero or negative
\* the call ends in an error: no factor is computed and no table is returned.
C2_NormalizationGuarded ==
    (Ended /\ self.normalize /\ total_comp_cost <= 0) =>
        /\ outcome # "returned"
        /\ factor = Unset
        /\ interpolation_functions = Empty

\* C3: every returned leaf interpolant starts with the pair (0, 0): demand 0 and
\* a scaled loss of exactly 0, for every normalize, flag3d and repl_cost.
C3_AnchoredAtOrigin ==
    Returned =>
        \A q \in DOMAIN interpolation_functions :
            /\ interpolation_functions[q].x[1] = 0
            /\ interpolation_functions[q].y[1] = [k |-> "num", n |-> 0, d |-> 1]

\* C4: when normalize is set, the sum of the aggregated maxima multiplied by the
\* factor applied to the leaves equals repl_cost.
C4_NormalizationCorrect ==
    (Ended /\ self.normalize) =>
        Times(SumOfMaxima(arg, CostLeaves(arg, self.flag3d)), factor)
            = [k |-> "num", n |-> self.repl_cost, d |-> 1]

\* C5: total_comp_cost is the sum of max(loss) over the Non-directional leaves
\* and the dir1 leaves, plus the dir2 leaves exactly when flag3d is set.
C5_TotalByDirection ==
    Ended => total_comp_cost = SumOfMaxima(arg, CostLeaves(arg, self.flag3d))

C5_Witness ==
    /\ Returned
    /\ ~self.flag3d
    /\ Len(arg[3]) > 0 /\ MaxOf(arg[3][1].loss) # 0
    /\ Len(arg[1]) + Len(arg[2]) > 0
    /\ total_comp_cost # 0

\* C6: every entry of the raw table is found in the returned table at its own
\* path under the integer of the last character of its identifier, as the
\* interpolant of its own samples.
C6_EveryEntryRetrievable ==
    Returned =>
        \A p \in PathIds : \A j \in 1..Len(arg[p]) :
            /\ OutKey(p, arg[p][j]) \in DOMAIN interpolation_functions
            /\ interpolation_functions[OutKey(p, arg[p][j])]
                   = OwnInterp(p, arg[p][j], factor)

\* C6 (amended): the same for every entry that is the last one, in the table's
\* order, of the identifiers at its path that end in its last character.
C6_LastEntryOfKeyRetrievable ==
    Returned =>
        \A p \in PathIds : \A j \in 1..Len(arg[p]) :
            LastOfItsKey(arg, p, j) =>
                /\ OutKey(p, arg[p][j]) \in DOMAIN interpolation_functions
                /\ interpolation_functions[OutKey(p, arg[p][j])]
                       = OwnInterp(p, arg[p][j], factor)

C6_Witness ==
    /\ Returned
    /\ \E p \in PathIds :
          /\ Len(arg[p]) = 2
          /\ ~LastOfItsKey(arg, p, 1)
          /\ arg[p][1].loss # arg[p][2].loss
          /\ interpolation_functions[OutKey(p, arg[p][2])]
                 = OwnInterp(p, arg[p][2], factor)

C8_RawTableUnchanged ==
    Ended => df = arg

\* C9: the factor is computed only after the first loop has read every leaf it
\* aggregates; nothing is truncated or stored before the factor is computed;
\* every leaf stored in a call was scaled by that call's one factor.
C9_TwoPhaseBarrier ==
    /\ factor # Unset => visited = CostLeaves(arg, self.flag3d)
    /\ factor = Unset => (df = arg /\ interpolation_functions = Empty /\ built = {})
    /\ pc = "agg" => factor = Unset
    /\ \A b \in built : b.f = factor

C9_Witness ==
    /\ pc = "build"
    /\ Cardinality(visited) = 2
    /\ Cardinality(built) = 1
    /\ self.normalize
    /\ factor.k = "num"

\* C10: a second call on the same table object returns the same total, the same
\* factor and the same sample pairs in every leaf as the first call.
C10_Repeatable ==
    (Returned /\ ncalls >= 2 /\ prev.outcome = "returned") => Result = prev

====
